---- MODULE Spec2Model ----
(***************************************************************************)
(* Model of netlify/functions/process-excel.js: the row filter of the      *)
(* upload handler and createProductGroups with its helpers; and of         *)
(* netlify/functions/sync-shopify.js: the loop of the sync handler over    *)
(* the posted product groups, findExistingProduct and the variant prices.  *)
(*                                                                         *)
(* A JavaScript string is modelled as the sequence of its characters, each *)
(* character a one-character TLA+ string, so that toLowerCase, includes,   *)
(* trim, replace and parseInt are computed the way the code computes them. *)
(* The file defines exports.handler, createSEOTitle and estimatePrice      *)
(* twice; the later definition is the one in force, and it is the one      *)
(* modelled.                                                               *)
(***************************************************************************)
EXTENDS Integers, Sequences, FiniteSets, TLC

VARIABLES
  jsonData,       \* rows handed to the filter (lines 694, 733)
  pc,             \* position of the handler: "filter", "group", "done"
  index,          \* 0-based index of the next item of the running loop
  verdict,        \* return values of the filter callback, one per row seen
  appleProducts,  \* rows kept by the filter (line 779)
  productGroups,  \* createProductGroups: groupKey -> group (line 905)
  categories,     \* createProductGroups: productType -> count (line 906)
  caught,         \* indices of the items whose try block threw (line 978)
  response,       \* what the handler returns
  condCall,       \* last call of cleanCondition: argument and result
  priceCall,      \* last call of estimatePrice: arguments and result
  helperCall,     \* last call of determineProductType or findValue
  event,          \* sync: the request, its method and which body fields it has
  existingCollections, \* sync: the collections of the store (line 156)
  calls,          \* sync: the outbound calls and rate-limit delays, in order
  existingProducts, \* sync: the products of the store (sync-shopify.js line 52)
  entries,        \* sync: the posted product groups in Object.entries order (line 68)
  results,        \* sync: the counters created, updated, errors (line 57)
  requests        \* sync: the product requests sent to the store, one per group

syncVars == <<event, existingProducts, existingCollections, entries, results,
              requests, calls>>

vars == <<jsonData, pc, index, verdict, appleProducts, productGroups,
          categories, caught, response, condCall, priceCall, helperCall, syncVars>>

-----------------------------------------------------------------------------
(* JavaScript strings *)

UpperAlpha == <<"A","B","C","D","E","F","G","H","I","J","K","L","M","N","O","P","Q","R","S","T","U","V","W","X","Y","Z">>
LowerAlpha == <<"a","b","c","d","e","f","g","h","i","j","k","l","m","n","o","p","q","r","s","t","u","v","w","x","y","z">>
Digits == <<"0","1","2","3","4","5","6","7","8","9">>
WhiteSpace == {" ", "\t"}

Range(s) == {s[i] : i \in 1..Len(s)}

IndexIn(c, s) == CHOOSE i \in 1..Len(s) : s[i] = c

LowerChar(c) == IF c \in Range(UpperAlpha) THEN LowerAlpha[IndexIn(c, UpperAlpha)] ELSE c

UpperChar(c) == IF c \in Range(LowerAlpha) THEN UpperAlpha[IndexIn(c, LowerAlpha)] ELSE c

toLowerCase(s) == [i \in 1..Len(s) |-> LowerChar(s[i])]

toUpperCase(s) == [i \in 1..Len(s) |-> UpperChar(s[i])]

includes(s, sub) ==
  \E i \in 0..(Len(s) - Len(sub)) : SubSeq(s, i + 1, i + Len(sub)) = sub

trim(s) ==
  LET solid == {i \in 1..Len(s) : s[i] \notin WhiteSpace}
  IN  IF solid = {} THEN <<>>
      ELSE SubSeq(s, CHOOSE i \in solid : \A j \in solid : i <= j,
                     CHOOSE i \in solid : \A j \in solid : i >= j)

IsAlnum(c) == c \in Range(UpperAlpha) \cup Range(LowerAlpha) \cup Range(Digits)

\* s.replace(/[^a-zA-Z0-9]/g, '_')
replaceNonAlnum(s) == [i \in 1..Len(s) |-> IF IsAlnum(s[i]) THEN s[i] ELSE "_"]

DigitVal(c) == IndexIn(c, Digits) - 1

RECURSIVE DigitsToInt(_)
DigitsToInt(ds) ==
  IF ds = <<>> THEN 0
  ELSE 10 * DigitsToInt(SubSeq(ds, 1, Len(ds) - 1)) + DigitVal(ds[Len(ds)])

\* The longest run of decimal digits of s that starts at position i.
DigitRun(s, i) ==
  LET stops == {j \in i..Len(s) : s[j] \notin Range(Digits)}
      stop == IF stops = {} THEN Len(s) + 1
              ELSE CHOOSE j \in stops : \A k \in stops : j <= k
  IN  SubSeq(s, i, stop - 1)

\* A JavaScript value that is a number, NaN, or a string that arose where a
\* number was meant.
Num(n) == [kind |-> "number", value |-> n]
NaN == [kind |-> "NaN", value |-> 0]
NotANumber == [kind |-> "string", value |-> 0]

\* parseInt(s): leading white space, an optional sign, then decimal digits;
\* what follows the digits is ignored; no digit gives NaN.
parseInt(s) ==
  LET t == trim(s)
      negative == t # <<>> /\ t[1] = "-"
      signed == t # <<>> /\ t[1] \in {"-", "+"}
      run == DigitRun(t, IF signed THEN 2 ELSE 1)
  IN  IF run = <<>> THEN NaN
      ELSE IF negative THEN Num(0 - DigitsToInt(run)) ELSE Num(DigitsToInt(run))

\* String(n) for a non-negative integer n.
RECURSIVE IntToStr(_)
IntToStr(n) ==
  IF n < 10 THEN <<Digits[n + 1]>> ELSE IntToStr(n \div 10) \o <<Digits[(n % 10) + 1]>>

\* Property names every object literal inherits from Object.prototype: a
\* bracket lookup obj[key] with such a key yields the inherited function
\* (or, for __proto__, the prototype object), never undefined.
ObjectPrototypeProps ==
  { <<"c","o","n","s","t","r","u","c","t","o","r">>, <<"t","o","S","t","r","i","n","g">>, <<"v","a","l","u","e","O","f">>, <<"h","a","s","O","w","n","P","r","o","p","e","r","t","y">>,
    <<"i","s","P","r","o","t","o","t","y","p","e","O","f">>, <<"t","o","L","o","c","a","l","e","S","t","r","i","n","g">>, <<"p","r","o","p","e","r","t","y","I","s","E","n","u","m","e","r","a","b","l","e">>,
    <<"_","_","p","r","o","t","o","_","_">> }

-----------------------------------------------------------------------------
(* Field resolution and the row filter *)

\* A row is a function from column names to cell values.  A text cell is
\* the sequence of its characters; a numeric cell, which sheet_to_json gives
\* for a number of the sheet, is "number" followed by its decimal digits.
IsNumberCell(cell) == cell # <<>> /\ cell[1] = "number"

\* item[name] as a condition: false for the empty string and for the number 0.
truthy(cell) == IF IsNumberCell(cell) THEN Tail(cell) # <<"0">> ELSE cell # <<>>

\* String(item[name]).
String(cell) == IF IsNumberCell(cell) THEN Tail(cell) ELSE cell

\* findValue(item, possibleNames), line 894.  item[name] is undefined, and
\* falsy, for a missing column.
RECURSIVE findValue(_, _)
findValue(item, possibleNames) ==
  IF possibleNames = <<>> THEN <<>>
  ELSE LET name == Head(possibleNames)
       IN  IF /\ name \in DOMAIN item
              /\ truthy(item[name])
              /\ trim(String(item[name])) # <<>>
           THEN trim(String(item[name]))
           ELSE findValue(item, Tail(possibleNames))

FilterCategoryNames ==
  <<"Sub-Category", "Category", "Type", "Product Type", "sub-category", "category",
    "Sub Category">>
FilterModelNames == <<"Model", "Product", "Name", "Title", "model", "product">>
FilterBrandNames == <<"Brand", "Manufacturer", "Make", "brand", "manufacturer">>
FilterStockNames == <<"Stock", "Quantity", "Qty", "Available", "stock", "quantity">>

\* Line 793: the test that makes the filter callback return false at once.
noStock(stock) ==
  stock # <<>> /\ (stock = <<"0">> \/ includes(toLowerCase(stock), <<"o","u","t">>))

brandMatch(brand) == includes(toLowerCase(brand), <<"a","p","p","l","e">>)

categoryMatch_reversed(category) ==
  \/ includes(<<"l","a","p","t","o","p">>, toLowerCase(category))
  \/ includes(<<"m","a","c","b","o","o","k">>, toLowerCase(category))
  \/ includes(<<"t","a","b","l","e","t">>, toLowerCase(category))
  \/ includes(<<"p","h","o","n","e">>, toLowerCase(category))
  \/ includes(<<"d","e","s","k","t","o","p">>, toLowerCase(category))

categoryMatch(category) ==
  \/ includes(toLowerCase(category), <<"l","a","p","t","o","p">>)
  \/ includes(toLowerCase(category), <<"m","a","c","b","o","o","k">>)
  \/ includes(toLowerCase(category), <<"t","a","b","l","e","t">>)
  \/ includes(toLowerCase(category), <<"p","h","o","n","e">>)
  \/ includes(toLowerCase(category), <<"d","e","s","k","t","o","p">>)

modelMatch(model) ==
  \/ includes(toLowerCase(model), <<"m","a","c","b","o","o","k">>)
  \/ includes(toLowerCase(model), <<"i","p","a","d">>)
  \/ includes(toLowerCase(model), <<"i","p","h","o","n","e">>)
  \/ includes(toLowerCase(model), <<"i","m","a","c">>)
  \/ includes(toLowerCase(model), <<"a","i","r","p","o","d">>)

appleProductsFilter_noBrand(item) ==
  LET category == findValue(item, FilterCategoryNames)
      model == findValue(item, FilterModelNames)
      stock == findValue(item, FilterStockNames)
  IN  IF noStock(stock) THEN FALSE
      ELSE categoryMatch(category) \/ modelMatch(model)

appleProductsFilter_stockLast(item) ==
  LET category == findValue(item, FilterCategoryNames)
      model == findValue(item, FilterModelNames)
      brand == findValue(item, FilterBrandNames)
      stock == findValue(item, FilterStockNames)
      isApple == brandMatch(brand) \/ categoryMatch(category) \/ modelMatch(model)
  IN  IF isApple THEN TRUE
      ELSE IF noStock(stock) THEN FALSE
      ELSE FALSE

\* The callback of jsonData.filter.  Cells are strings, so nothing in the try
\* block throws and the catch of line 817 is never entered.
appleProductsFilter(item) ==
  LET category == findValue(item, FilterCategoryNames)
      model == findValue(item, FilterModelNames)
      brand == findValue(item, FilterBrandNames)
      stock == findValue(item, FilterStockNames)
  IN  IF noStock(stock) THEN FALSE
      ELSE brandMatch(brand) \/ categoryMatch(category) \/ modelMatch(model)

-----------------------------------------------------------------------------
(* Helpers of createProductGroups *)

determineProductType_genericFirst(model, category) ==
  LET modelLower == toLowerCase(model)
      categoryLower == toLowerCase(category)
  IN  IF includes(modelLower, <<"m","a","c","b","o","o","k">>) THEN <<"M","a","c","B","o","o","k">>
      ELSE IF includes(modelLower, <<"i","p","a","d">>) THEN <<"i","P","a","d">>
      ELSE IF includes(modelLower, <<"i","p","h","o","n","e">>) THEN <<"i","P","h","o","n","e">>
      ELSE IF includes(categoryLower, <<"l","a","p","t","o","p">>) THEN <<"M","a","c","B","o","o","k">>
      ELSE IF category # <<>> THEN category
      ELSE <<"A","p","p","l","e"," ","P","r","o","d","u","c","t">>

\* determineProductType(model, category): first match wins.
determineProductType(model, category) ==
  LET modelLower == toLowerCase(model)
      categoryLower == toLowerCase(category)
  IN  IF includes(modelLower, <<"m","a","c","b","o","o","k"," ","p","r","o">>) THEN <<"M","a","c","B","o","o","k"," ","P","r","o">>
      ELSE IF includes(modelLower, <<"m","a","c","b","o","o","k"," ","a","i","r">>) THEN <<"M","a","c","B","o","o","k"," ","A","i","r">>
      ELSE IF includes(modelLower, <<"m","a","c","b","o","o","k">>) THEN <<"M","a","c","B","o","o","k">>
      ELSE IF includes(modelLower, <<"i","p","a","d"," ","p","r","o">>) THEN <<"i","P","a","d"," ","P","r","o">>
      ELSE IF includes(modelLower, <<"i","p","a","d"," ","a","i","r">>) THEN <<"i","P","a","d"," ","A","i","r">>
      ELSE IF includes(modelLower, <<"i","p","a","d"," ","m","i","n","i">>) THEN <<"i","P","a","d"," ","M","i","n","i">>
      ELSE IF includes(modelLower, <<"i","p","a","d">>) THEN <<"i","P","a","d">>
      ELSE IF includes(modelLower, <<"i","p","h","o","n","e">>) THEN <<"i","P","h","o","n","e">>
      ELSE IF includes(modelLower, <<"i","m","a","c">>) THEN <<"i","M","a","c">>
      ELSE IF includes(modelLower, <<"m","a","c"," ","m","i","n","i">>) THEN <<"M","a","c"," ","M","i","n","i">>
      ELSE IF includes(modelLower, <<"m","a","c"," ","s","t","u","d","i","o">>) THEN <<"M","a","c"," ","S","t","u","d","i","o">>
      ELSE IF includes(modelLower, <<"a","i","r","p","o","d">>) THEN <<"A","i","r","P","o","d","s">>
      ELSE IF includes(categoryLower, <<"l","a","p","t","o","p">>) THEN <<"M","a","c","B","o","o","k">>
      ELSE IF includes(categoryLower, <<"t","a","b","l","e","t">>) THEN <<"i","P","a","d">>
      ELSE IF includes(categoryLower, <<"p","h","o","n","e">>) THEN <<"i","P","h","o","n","e">>
      ELSE IF includes(categoryLower, <<"d","e","s","k","t","o","p">>) THEN <<"i","M","a","c">>
      ELSE IF category # <<>> THEN category
      ELSE <<"A","p","p","l","e"," ","P","r","o","d","u","c","t">>

cleanSpec(spec) ==
  IF spec = <<>> \/ spec = <<"U","n","k","n","o","w","n">> THEN <<"U","n","k","n","o","w","n">> ELSE trim(spec)

\* The function cleanCondition of line 1023.
cleanCondition(condition) ==
  LET conditionUpper == trim(toUpperCase(condition))
  IN  IF condition = <<>> THEN <<"A">>
      ELSE IF includes(conditionUpper, <<"A">>) \/ includes(conditionUpper, <<"E","X","C","E","L","L","E","N","T">>)
           THEN <<"A">>
      ELSE IF includes(conditionUpper, <<"B">>) \/ includes(conditionUpper, <<"V","E","R","Y"," ","G","O","O","D">>)
           THEN <<"B">>
      ELSE IF includes(conditionUpper, <<"C">>) \/ includes(conditionUpper, <<"G","O","O","D">>)
           THEN <<"C">>
      ELSE IF includes(conditionUpper, <<"D">>) \/ includes(conditionUpper, <<"F","A","I","R">>)
           THEN <<"D">>
      ELSE <<"A">>

RECURSIVE join(_, _)
join(parts, sep) ==
  IF parts = <<>> THEN <<>>
  ELSE IF Len(parts) = 1 THEN parts[1]
  ELSE parts[1] \o sep \o join(Tail(parts), sep)

\* createSEOTitle(productType, processor, storage, memory), line 1038.
createSEOTitle(productType, processor, storage, memory) ==
  LET known(x) == x # <<>> /\ x # <<"U","n","k","n","o","w","n">>
      specs == (IF known(processor) THEN <<processor>> ELSE <<>>)
               \o (IF known(storage) THEN <<storage>> ELSE <<>>)
               \o (IF known(memory) THEN <<memory>> ELSE <<>>)
  IN  productType
      \o (IF Len(specs) > 0 THEN <<" ","-"," ">> \o join(specs, <<","," ">>) ELSE <<>>)
      \o <<" ","|"," ","C","e","r","t","i","f","i","e","d"," ","R","e","f","u","r","b","i","s","h","e","d">>

\* The object literal basePrices of estimatePrice (lines 1056-1069).
basePrices ==
  <<"M","a","c","B","o","o","k"," ","P","r","o">> :> 1999 @@ <<"M","a","c","B","o","o","k"," ","A","i","r">> :> 1299 @@ <<"M","a","c","B","o","o","k">> :> 1199 @@
  <<"i","P","a","d"," ","P","r","o">> :> 899 @@ <<"i","P","a","d"," ","A","i","r">> :> 649 @@ <<"i","P","a","d">> :> 449 @@
  <<"i","P","a","d"," ","M","i","n","i">> :> 599 @@ <<"i","P","h","o","n","e">> :> 799 @@ <<"i","M","a","c">> :> 1499 @@
  <<"M","a","c"," ","S","t","u","d","i","o">> :> 2199 @@ <<"M","a","c"," ","M","i","n","i">> :> 799 @@ <<"A","i","r","P","o","d","s">> :> 179

\* Math.round(p / q) for integers p >= 0 and q > 0.
RoundDiv(p, q) == (2 * p + q) \div (2 * q)

\* storage.match(/(\d+)/): the first run of digits of the string, <<>> for no match.
firstDigits(s) ==
  LET at == {i \in 1..Len(s) : s[i] \in Range(Digits)}
  IN  IF at = {} THEN <<>>
      ELSE DigitRun(s, CHOOSE i \in at : \A j \in at : i <= j)

\* The storage factor of lines 1074-1081 as a fraction <<numerator, denominator>>.
storageFactor(storage) ==
  LET storageMatch == firstDigits(storage)
      storageAmount == DigitsToInt(storageMatch)
  IN  IF storage = <<>> \/ storage = <<"U","n","k","n","o","w","n">> \/ storageMatch = <<>> THEN <<1, 1>>
      ELSE IF storageAmount >= 1000 THEN <<13, 10>>
      ELSE IF storageAmount >= 512 THEN <<23, 20>>
      ELSE <<1, 1>>

\* estimatePrice(productType, storage), line 1055.  basePrices[productType] is a
\* property lookup on an object literal: a productType that names a property
\* of Object.prototype yields that function, which is truthy, so the default
\* 999 is not taken, and Math.round of a function (or of a function times a
\* number) is NaN.  No price of the table times 1.3 or 1.15 ends in .5, so the
\* rounding of the exact product is the rounding of the floating-point one.
estimatePrice(productType, storage) ==
  LET f == storageFactor(storage)
  IN  IF productType \in DOMAIN basePrices
        THEN Num(RoundDiv(basePrices[productType] * f[1], f[2]))
      ELSE IF productType \in ObjectPrototypeProps THEN NaN
      ELSE Num(RoundDiv(999 * f[1], f[2]))

-----------------------------------------------------------------------------
(* createProductGroups *)

\* The names bound by const in the try block of the forEach callback, in the
\* order of their declarations (lines 911-932 and 960).
TryBlockConsts ==
  <<"model", "category", "processor", "storage", "memory", "color", "condition",
    "serialNumber", "stock", "productType", "cleanProcessor", "cleanStorage",
    "cleanMemory", "cleanColor", "cleanCondition", "groupKey", "variantKey">>

\* Reading the name `callee` in the initializer of the const `declared`: inside
\* the block the name denotes the block's own binding when the block declares
\* it, and that binding is uninitialized (temporal dead zone) until its own
\* declaration has been evaluated; reading it then raises a ReferenceError.
ReadThrows(callee, declared) ==
  \E i, j \in 1..Len(TryBlockConsts) :
    /\ TryBlockConsts[i] = callee
    /\ TryBlockConsts[j] = declared
    /\ i >= j

\* Line 929, `const cleanCondition = cleanCondition(condition)`: the callee is
\* the const being declared, not the function of line 1023.
Line929Throws == ReadThrows("cleanCondition", "cleanCondition")

orElse(value, default) == IF value # <<>> THEN value ELSE default

\* Line 919: parseInt(...) || 1.  NaN and 0 are falsy.
stockOf(item) ==
  LET n == parseInt(findValue(item, <<"Stock", "Quantity", "Qty">>))
  IN  IF n.kind = "NaN" \/ n.value = 0 THEN 1 ELSE n.value

\* Line 976: (categories[productType] || 0) + 1.  A productType naming a
\* property of Object.prototype reads the inherited function, and function + 1
\* is a string concatenation.
countUp(cats, productType) ==
  IF productType \in DOMAIN cats
    THEN IF cats[productType].kind = "number" THEN Num(cats[productType].value + 1)
         ELSE NotANumber
  ELSE IF productType \in ObjectPrototypeProps THEN NotANumber
  ELSE Num(1)

\* Lines 911-929: the fields of one item, resolved and cleaned.  cleanCondition
\* is the value the function of line 1023 gives.
extract(item, idx) ==
  LET model == orElse(findValue(item, <<"Model", "Product", "Name">>),
                      <<"P","r","o","d","u","c","t"," ">> \o IntToStr(idx + 1))
      category == orElse(findValue(item, <<"Sub-Category", "Category", "Type">>),
                         <<"A","p","p","l","e"," ","P","r","o","d","u","c","t">>)
      processor == orElse(findValue(item, <<"Processor", "CPU", "Chip">>), <<"U","n","k","n","o","w","n">>)
      storage == orElse(findValue(item, <<"Storage", "SSD", "Hard Drive", "HDD">>),
                        <<"U","n","k","n","o","w","n">>)
      memory == orElse(findValue(item, <<"Memory", "RAM", "System Memory">>), <<"U","n","k","n","o","w","n">>)
      color == orElse(findValue(item, <<"Color", "Colour", "Finish">>), <<"D","e","f","a","u","l","t">>)
      condition == orElse(findValue(item, <<"Condition", "Grade", "Quality">>), <<"A">>)
  IN  [model |-> model,
       serialNumber |-> findValue(item, <<"Serial Number", "Serial", "S/N", "SN">>),
       stock |-> stockOf(item),
       productType |-> determineProductType(model, category),
       cleanProcessor |-> cleanSpec(processor),
       cleanStorage |-> cleanSpec(storage),
       cleanMemory |-> cleanSpec(memory),
       cleanColor |-> cleanSpec(color),
       cleanCondition |-> cleanCondition(condition)]

\* Line 932: the grouping key of an item with the fields x.
groupKeyOf(x) ==
  replaceNonAlnum(x.productType \o <<"-">> \o x.cleanProcessor \o <<"-">> \o x.cleanStorage)

\* Line 960: the variant key of an item with the fields x.
variantKeyOf(x) == x.cleanColor \o <<"-">> \o x.cleanCondition

\* Lines 970-973: the variant after an item with the fields x is added to it.
updateVariant(variant, x) ==
  [variant EXCEPT
     !.quantity = @ + x.stock,
     !.serialNumbers = IF x.serialNumber # <<>> THEN Append(@, x.serialNumber) ELSE @]

\* Lines 931-976 for one item with the fields x: what the statements after
\* line 929 do to the two accumulators when control reaches them.
groupItem(groups, cats, item, x) ==
  LET groupKey == groupKeyOf(x)
      created == [productType |-> x.productType,
                  processor |-> x.cleanProcessor,
                  storage |-> x.cleanStorage,
                  memory |-> x.cleanMemory,
                  seoTitle |-> createSEOTitle(x.productType, x.cleanProcessor,
                                              x.cleanStorage, x.cleanMemory),
                  basePrice |-> estimatePrice(x.productType, x.cleanStorage),
                  items |-> <<>>,
                  variants |-> <<>>,
                  collections |-> <<x.productType, <<"A","p","p","l","e">>, <<"R","e","f","u","r","b","i","s","h","e","d">>>>]
      group == IF groupKey \in DOMAIN groups THEN groups[groupKey] ELSE created
      itemRecord == [model |-> x.model, color |-> x.cleanColor,
                     condition |-> x.cleanCondition, serialNumber |-> x.serialNumber,
                     stock |-> x.stock, originalData |-> item]
      variantKey == variantKeyOf(x)
      variant == IF variantKey \in DOMAIN group.variants THEN group.variants[variantKey]
                 ELSE [color |-> x.cleanColor, condition |-> x.cleanCondition,
                       quantity |-> 0, serialNumbers |-> <<>>]
      after == [group EXCEPT
                  !.items = Append(@, itemRecord),
                  !.variants = (variantKey :> updateVariant(variant, x)) @@ @]
      \* productGroups[groupKey] with an inherited name is truthy and has no items
      inheritedKey == groupKey \notin DOMAIN groups /\ groupKey \in ObjectPrototypeProps
  IN  IF inheritedKey
        THEN [threw |-> TRUE, productGroups |-> groups, categories |-> cats]
      ELSE [threw |-> FALSE,
            productGroups |-> (groupKey :> after) @@ groups,
            categories |-> (x.productType :> countUp(cats, x.productType)) @@ cats]

accumulate_throwsLate(groups, cats, item, x) ==
  [threw |-> TRUE,
   productGroups |-> groupItem(groups, cats, item, x).productGroups,
   categories |-> cats]

\* Lines 929-977 for one item with the fields x: whether the try block threw,
\* and the two accumulators after it.
accumulate(groups, cats, item, x) ==
  IF Line929Throws
    THEN [threw |-> TRUE, productGroups |-> groups, categories |-> cats]
  ELSE groupItem(groups, cats, item, x)

\* The try block of the forEach callback (lines 909-977) for one item.
tryBlock(groups, cats, item, idx) == accumulate(groups, cats, item, extract(item, idx))

\* The accumulators after the first n items of rows.
RECURSIVE forEach(_, _)
forEach(rows, n) ==
  IF n = 0 THEN [productGroups |-> <<>>, categories |-> <<>>]
  ELSE LET before == forEach(rows, n - 1)
           out == tryBlock(before.productGroups, before.categories, rows[n], n - 1)
       IN  [productGroups |-> out.productGroups, categories |-> out.categories]

\* createProductGroups(appleProducts): the value it returns.
createProductGroups(rows) ==
  LET end == forEach(rows, Len(rows))
  IN  [productGroups |-> end.productGroups,
       categories |-> end.categories,
       totalItems |-> Len(rows),
       groupCount |-> Cardinality(DOMAIN end.productGroups)]

-----------------------------------------------------------------------------
(* Inputs *)

MaxRows == 2

\* Rows for the runs of createProductGroups.
SampleRows ==
  { ("Brand" :> <<"A","p","p","l","e">> @@ "Model" :> <<"M","a","c","B","o","o","k"," ","P","r","o"," ","1","4","-","i","n","c","h"," ","2","0","2","3">> @@ "Processor" :> <<"A","p","p","l","e"," ","M","3"," ","P","r","o">> @@ "Storage" :> <<"5","1","2","G","B">> @@ "Memory" :> <<"1","6","G","B">> @@ "Color" :> <<"S","p","a","c","e"," ","G","r","a","y">> @@ "Condition" :> <<"E","x","c","e","l","l","e","n","t">> @@ "Stock" :> <<"3">>),
    ("Brand" :> <<"A","p","p","l","e">> @@ "Model" :> <<"M","a","c","B","o","o","k"," ","P","r","o"," ","1","4","-","i","n","c","h"," ","2","0","2","3">> @@ "Processor" :> <<"A","p","p","l","e"," ","M","3"," ","P","r","o">> @@ "Storage" :> <<"5","1","2","G","B">> @@ "Memory" :> <<"1","6","G","B">> @@ "Color" :> <<"S","i","l","v","e","r">> @@ "Condition" :> <<"G","o","o","d">> @@ "Stock" :> <<"3">>),
    ("Brand" :> <<"A","p","p","l","e">> @@ "Model" :> <<"M","a","c","B","o","o","k"," ","P","r","o"," ","1","4","-","i","n","c","h"," ","2","0","2","3">> @@ "Processor" :> <<"A","p","p","l","e"," ","M","3"," ","P","r","o">> @@ "Storage" :> <<"5","1","2","G","B">> @@ "Memory" :> <<"3","2","G","B">> @@ "Color" :> <<"S","p","a","c","e"," ","G","r","a","y">> @@ "Condition" :> <<"E","x","c","e","l","l","e","n","t">> @@ "Stock" :> <<>>),
    ("Brand" :> <<"A","P","P","L","E">> @@ "Category" :> <<"T","a","b","l","e","t">> @@ "Model" :> <<"i","P","a","d"," ","A","i","r">> @@ "Storage" :> <<"1","T","B">> @@ "Condition" :> <<"F","a","i","r">> @@ "Serial" :> <<"F","9","X">> @@ "Stock" :> <<"t","w","o">>),
    ("Brand" :> <<"A","p","p","l","e">> @@ "Category" :> <<>> @@ "Model" :> <<>> @@ "Stock" :> <<"1">>),
    ("Brand" :> <<"S","a","m","s","u","n","g">> @@ "Model" :> <<"G","a","l","a","x","y"," ","T","a","b">> @@ "Category" :> <<"T","a","b","l","e","t">>),
    ("Brand" :> <<"A","p","p","l","e">> @@ "Category" :> <<"c","o","n","s","t","r","u","c","t","o","r">> @@ "Model" :> <<"W","a","t","c","h">> @@ "Stock" :> <<"-","2">>),
    ("Manufacturer" :> <<"A","p","p","l","e">> @@ "Name" :> <<"i","P","h","o","n","e"," ","1","3">> @@ "Qty" :> <<"0">>),
    ("Brand" :> <<"A","p","p","l","e">> @@ "Category" :> <<"A","p","p","l","e">> @@ "Model" :> <<"W","a","t","c","h"," ","S","E">> @@ "Storage" :> <<"3","2","G","B">>) }

\* Rows for the filter: every combination of these cells.
BrandCells == { <<>>, <<"A","p","p","l","e">>, <<"A","P","P","L","E"," ","i","n","c">>, <<"S","a","m","s","u","n","g">> }
CategoryCells ==
  { <<>>, <<"T","a","b","l","e","t">>, <<"L","A","P","T","O","P","S">>, <<"A","c","c","e","s","s","o","r","i","e","s">>, <<"R","e","p","a","i","r">>, <<"M","o","n","i","t","o","r">> }
ModelCells ==
  { <<>>, <<"G","a","l","a","x","y"," ","T","a","b">>, <<"i","P","h","o","n","e"," ","1","3">>, <<"M","a","g","i","c"," ","K","e","y","b","o","a","r","d">>, <<"T","h","i","n","k","P","a","d">> }
StockCells == { <<>>, <<"0">>, <<" ","0"," ">>, <<"3">>, <<"O","u","t"," ","o","f"," ","S","t","o","c","k">>, <<"1","0">> }

GridRows ==
  { ("Brand" :> b) @@ ("Sub-Category" :> c) @@ ("Model" :> m) @@ ("Stock" :> s) :
      b \in BrandCells, c \in CategoryCells, m \in ModelCells, s \in StockCells }

\* The same cells under later aliases, behind an empty or blank first alias.
AliasRows ==
  { ("Brand" :> <<" ">>) @@ ("Make" :> b) @@ ("Type" :> c) @@ ("Title" :> m)
      @@ ("Stock" :> <<>>) @@ ("Available" :> s) :
      b \in BrandCells, c \in CategoryCells, m \in ModelCells, s \in StockCells }

SeqsUpTo(S, n) == UNION {[1..k -> S] : k \in 0..n}

Inputs ==
  SeqsUpTo(SampleRows, MaxRows) \cup {<<r>> : r \in GridRows \cup AliasRows}

ConditionWords ==
  { <<"A">>, <<"B">>, <<"C">>, <<"D">>, <<"P">>, <<"E","x","c","e","l","l","e","n","t">>, <<"V","e","r","y"," ","G","o","o","d">>, <<"G","o","o","d">>,
    <<"F","a","i","r">>, <<"P","o","o","r">> }

OtherConditions ==
  { <<>>, <<"N","e","w">>, <<"U","s","e","d">>, <<"B","r","o","k","e","n">>, <<"M","i","n","t">>, <<"L","i","k","e"," ","N","e","w">>, <<"O","p","e","n"," ","B","o","x">>,
    <<" ","b"," ">>, <<"G","r","a","d","e"," ","B">>, <<"n","/","a">>, <<"1">>, <<"?">> }

ConditionInputs ==
  ConditionWords \cup {toLowerCase(w) : w \in ConditionWords}
    \cup {toUpperCase(w) : w \in ConditionWords} \cup OtherConditions

ProductTypeInputs ==
  DOMAIN basePrices
    \cup { <<"A","p","p","l","e"," ","P","r","o","d","u","c","t">>, <<"W","a","t","c","h">>, <<"T","a","b","l","e","t"," ","P","C">>, <<"c","o","n","s","t","r","u","c","t","o","r">>,
           <<"t","o","S","t","r","i","n","g">> }

StorageInputs ==
  { <<"U","n","k","n","o","w","n">>, <<>>, <<"1","2","8","G","B">>, <<"2","5","6","G","B">>, <<"5","1","2","G","B">>, <<"5","1","1","G","B">>, <<"1","T","B">>,
    <<"2","T","B">>, <<"1","0","0","0","G","B">>, <<"S","S","D"," ","5","1","2">>, <<"b","i","g">> }


\* Arguments of determineProductType.
ModelInputs ==
  { <<>>, <<"P","r","o","d","u","c","t"," ","1">>, <<"M","a","c","B","o","o","k"," ","P","r","o"," ","1","4","-","i","n","c","h"," ","2","0","2","3">>, <<"M","A","C","B","O","O","K"," ","A","I","R"," ","M","2">>,
    <<"M","a","c","B","o","o","k"," ","1","2">>, <<"i","P","a","d"," ","P","r","o"," ","1","1">>, <<"A","p","p","l","e"," ","i","P","a","d"," ","A","i","r">>, <<"i","p","a","d"," ","m","i","n","i"," ","6">>,
    <<"i","P","a","d"," ","9","t","h"," ","g","e","n">>, <<"i","P","h","o","n","e"," ","1","3">>, <<"i","M","a","c"," ","2","4">>, <<"M","a","c"," ","m","i","n","i">>, <<"M","a","c"," ","S","t","u","d","i","o">>,
    <<"A","i","r","P","o","d","s"," ","P","r","o">>, <<"W","a","t","c","h">>, <<"i","P","a","d"," ","P","r","o"," ","/"," ","M","a","c","B","o","o","k"," ","P","r","o"," ","b","u","n","d","l","e">>,
    <<"C","a","s","e"," ","f","o","r"," ","i","P","a","d"," ","P","r","o">>, <<"i","M","a","c"," ","m","i","n","i"," ","s","t","a","n","d">> }

CategoryInputs ==
  { <<>>, <<"L","a","p","t","o","p","s">>, <<"T","a","b","l","e","t">>, <<"S","m","a","r","t","p","h","o","n","e">>, <<"D","E","S","K","T","O","P">>, <<"A","c","c","e","s","s","o","r","i","e","s">>,
    <<"A","p","p","l","e">>, <<"R","e","f","u","r","b","i","s","h","e","d">>, <<"D","e","s","k","t","o","p"," ","T","a","b","l","e","t">>, <<"L","a","p","t","o","p"," ","p","h","o","n","e">> }

\* Cells of the rows findValue is called on: absent, empty, blank, text with
\* blanks around it, text, the numbers 0 and 7.
Cells ==
  { <<>>, <<" "," ">>, <<" ","1","6","G","B"," ">>, <<"A","p","p","l","e">>, <<"number", "0">>, <<"number", "7">> }

CellRows ==
  { ("Stock" :> a) @@ ("Quantity" :> b) : a \in Cells, b \in Cells }
  \cup { ("Quantity" :> b) @@ ("Qty" :> c) : b \in Cells, c \in Cells }

AliasLists == { <<"Stock", "Quantity", "Qty">>, <<"Qty", "Quantity">>, <<"Stock">>, <<>> }
-----------------------------------------------------------------------------
(* The handler *)

NoCall == [called |-> FALSE]
NoResponse == [kind |-> "none"]

NoEvent == [httpMethod |-> "none"]

\* Line 57: the counters and the details before the first group.
NoResults == [created |-> 0, updated |-> 0, errors |-> 0, details |-> <<>>]

\* The sync handler is not running.
SyncIdle ==
  /\ existingProducts = <<>>
  /\ entries = <<>>
  /\ event = NoEvent
  /\ existingCollections = <<>>
  /\ results = NoResults
  /\ requests = <<>>
  /\ calls = <<>>

Init ==
  /\ jsonData \in Inputs
  /\ pc = "filter"
  /\ index = 0
  /\ verdict = <<>>
  /\ appleProducts = <<>>
  /\ productGroups = <<>>
  /\ categories = <<>>
  /\ caught = <<>>
  /\ response = NoResponse
  /\ condCall = NoCall
  /\ priceCall = NoCall
  /\ helperCall = NoCall
  /\ SyncIdle

\* Lines 753-767: no row was parsed.
NoData ==
  /\ pc = "filter"
  /\ Len(jsonData) = 0
  /\ pc' = "done"
  /\ response' = [kind |-> "error", statusCode |-> 200,
                  error |-> "No data found in Excel file"]
  /\ UNCHANGED <<syncVars, helperCall, jsonData, index, verdict, appleProducts, productGroups, categories,
                 caught, condCall, priceCall>>

\* Lines 779-821: one call of the filter callback.
FilterItem ==
  /\ pc = "filter"
  /\ index < Len(jsonData)
  /\ LET item == jsonData[index + 1]
         isApple == appleProductsFilter(item)
     IN  /\ verdict' = Append(verdict, isApple)
         /\ appleProducts' = IF isApple THEN Append(appleProducts, item) ELSE appleProducts
  /\ index' = index + 1
  /\ UNCHANGED <<syncVars, helperCall, jsonData, pc, productGroups, categories, caught, response, condCall,
                 priceCall>>

NoAppleProducts_throws ==
  /\ pc = "filter"
  /\ Len(jsonData) > 0
  /\ index = Len(jsonData)
  /\ appleProducts = <<>>
  /\ pc' = "done"
  /\ response' = [kind |-> "error", statusCode |-> 500,
                  error |-> "Processing failed: No Apple products found"]
  /\ UNCHANGED <<syncVars, helperCall, jsonData, index, verdict, appleProducts, productGroups, categories,
                 caught, condCall, priceCall>>

\* Lines 825-850: the filter kept nothing.
NoAppleProducts ==
  /\ pc = "filter"
  /\ Len(jsonData) > 0
  /\ index = Len(jsonData)
  /\ appleProducts = <<>>
  /\ pc' = "done"
  /\ response' = [kind |-> "error", statusCode |-> 200,
                  error |-> "No Apple products found after filtering"]
  /\ UNCHANGED <<syncVars, helperCall, jsonData, index, verdict, appleProducts, productGroups, categories,
                 caught, condCall, priceCall>>

\* Line 854 and lines 905-906: createProductGroups is entered.
EnterCreateProductGroups ==
  /\ pc = "filter"
  /\ Len(jsonData) > 0
  /\ index = Len(jsonData)
  /\ appleProducts # <<>>
  /\ pc' = "group"
  /\ index' = 0
  /\ productGroups' = <<>>
  /\ categories' = <<>>
  /\ UNCHANGED <<syncVars, helperCall, jsonData, verdict, appleProducts, caught, response, condCall, priceCall>>

\* Lines 908-981: one call of the forEach callback, its catch included.
ProcessItem ==
  /\ pc = "group"
  /\ index < Len(appleProducts)
  /\ LET out == tryBlock(productGroups, categories, appleProducts[index + 1], index)
     IN  /\ productGroups' = out.productGroups
         /\ categories' = out.categories
         /\ caught' = IF out.threw THEN Append(caught, index) ELSE caught
  /\ index' = index + 1
  /\ UNCHANGED <<syncVars, helperCall, jsonData, pc, verdict, appleProducts, response, condCall, priceCall>>

\* Lines 983-986 and 858-876: the result of createProductGroups is returned.
ReturnGroups ==
  /\ pc = "group"
  /\ index = Len(appleProducts)
  /\ pc' = "done"
  /\ response' = [kind |-> "success", statusCode |-> 200,
                  totalItems |-> Len(appleProducts),
                  groupCount |-> Cardinality(DOMAIN productGroups),
                  categories |-> categories,
                  productGroups |-> productGroups]
  /\ UNCHANGED <<syncVars, helperCall, jsonData, index, verdict, appleProducts, productGroups, categories,
                 caught, condCall, priceCall>>

Next ==
  \/ NoData
  \/ FilterItem
  \/ NoAppleProducts
  \/ EnterCreateProductGroups
  \/ ProcessItem
  \/ ReturnGroups

Spec == Init /\ [][Next]_vars

-----------------------------------------------------------------------------
(* createProductGroups called on its own *)

\* createProductGroups(appleProducts) is entered with any sequence of rows,
\* the empty one included.
InitAggregate ==
  /\ jsonData = <<>>
  /\ pc = "group"
  /\ index = 0
  /\ verdict = <<>>
  /\ appleProducts \in SeqsUpTo(SampleRows, MaxRows)
  /\ productGroups = <<>>
  /\ categories = <<>>
  /\ caught = <<>>
  /\ response = NoResponse
  /\ condCall = NoCall
  /\ priceCall = NoCall
  /\ helperCall = NoCall
  /\ SyncIdle

NextAggregate == ProcessItem \/ ReturnGroups

SpecAggregate == InitAggregate /\ [][NextAggregate]_vars

\* Either entry: the handler, or createProductGroups on its own.
InitEntry == Init \/ InitAggregate

SpecEntry == InitEntry /\ [][Next]_vars

-----------------------------------------------------------------------------
(* The helpers called on their own *)

InitNormalizer ==
  /\ jsonData = <<>>
  /\ pc = "filter"
  /\ index = 0
  /\ verdict = <<>>
  /\ appleProducts = <<>>
  /\ productGroups = <<>>
  /\ categories = <<>>
  /\ caught = <<>>
  /\ response = NoResponse
  /\ condCall = NoCall
  /\ priceCall = NoCall
  /\ helperCall = NoCall
  /\ SyncIdle

CallCleanCondition ==
  /\ \E condition \in ConditionInputs :
       condCall' = [called |-> TRUE, condition |-> condition,
                    result |-> cleanCondition(condition)]
  /\ UNCHANGED <<syncVars, helperCall, jsonData, pc, index, verdict, appleProducts, productGroups, categories,
                 caught, response, priceCall>>

CallEstimatePrice ==
  /\ \E productType \in ProductTypeInputs, storage \in StorageInputs :
       priceCall' = [called |-> TRUE, productType |-> productType, storage |-> storage,
                     result |-> estimatePrice(productType, storage)]
  /\ UNCHANGED <<syncVars, helperCall, jsonData, pc, index, verdict, appleProducts, productGroups, categories,
                 caught, response, condCall>>

NextNormalizer == CallCleanCondition \/ CallEstimatePrice

SpecNormalizer == InitNormalizer /\ [][NextNormalizer]_vars


-----------------------------------------------------------------------------
(* determineProductType and findValue called on their own *)

CallDetermineProductType ==
  /\ \E model \in ModelInputs, category \in CategoryInputs :
       helperCall' = [called |-> TRUE, fn |-> "determineProductType",
                      model |-> model, category |-> category,
                      result |-> determineProductType(model, category)]
  /\ UNCHANGED <<syncVars, jsonData, pc, index, verdict, appleProducts, productGroups,
                 categories, caught, response, condCall, priceCall>>

CallFindValue ==
  /\ \E item \in CellRows, possibleNames \in AliasLists :
       helperCall' = [called |-> TRUE, fn |-> "findValue",
                      item |-> item, possibleNames |-> possibleNames,
                      result |-> findValue(item, possibleNames)]
  /\ UNCHANGED <<syncVars, jsonData, pc, index, verdict, appleProducts, productGroups,
                 categories, caught, response, condCall, priceCall>>

NextHelpers == CallDetermineProductType \/ CallFindValue

SpecHelpers == InitNormalizer /\ [][NextHelpers]_vars

-----------------------------------------------------------------------------
(* netlify/functions/sync-shopify.js *)

Undefined == [kind |-> "undefined", value |-> 0]
Null == [kind |-> "null", value |-> 0]

\* s.replace(/\s+/g, '-'): every run of white space becomes one hyphen.
RECURSIVE replaceSpaces(_)
replaceSpaces(s) ==
  IF s = <<>> THEN <<>>
  ELSE IF s[1] \in WhiteSpace
    THEN IF Len(s) > 1 /\ s[2] \in WhiteSpace THEN replaceSpaces(Tail(s))
         ELSE <<"-">> \o replaceSpaces(Tail(s))
  ELSE <<s[1]>> \o replaceSpaces(Tail(s))

\* Array.prototype.find: the first element that satisfies the callback, hits
\* being the indices of the elements that satisfy it.
find(array, hits) ==
  IF hits = {} THEN Undefined
  ELSE array[CHOOSE i \in hits : \A j \in hits : i <= j]

\* The callback of lines 665-681.
productMatches(product, productGroup) ==
  LET searchTitle == toLowerCase(productGroup.seoTitle)
      productType == toLowerCase(productGroup.productType)
      processor == toLowerCase(productGroup.processor)
      storage == toLowerCase(productGroup.storage)
      productTitle == toLowerCase(product.title)
      productTags == toLowerCase(product.tags)
      titleMatches == /\ includes(productTitle, productType)
                      /\ (processor = <<"u","n","k","n","o","w","n">> \/ includes(productTitle, processor))
                      /\ (storage = <<"u","n","k","n","o","w","n">> \/ includes(productTitle, storage))
      tagMatches == /\ includes(productTags, replaceSpaces(productType))
                    /\ \/ processor = <<"u","n","k","n","o","w","n">>
                       \/ includes(productTags, replaceSpaces(processor))
  IN  \/ productTitle = searchTitle
      \/ titleMatches
      \/ tagMatches

\* findExistingProduct(existingProducts, productGroup), line 658.
findExistingProduct(products, productGroup) ==
  find(products, {i \in 1..Len(products) : productMatches(products[i], productGroup)})

\* productGroup.basePrice || 999 (lines 291, 316, 333).  The base price
\* arrives as JSON: a number, or null where estimatePrice gave NaN.
basePriceOr999(productGroup) ==
  IF productGroup.basePrice.kind = "number" /\ productGroup.basePrice.value # 0
    THEN productGroup.basePrice.value
  ELSE 999

\* The object literal conditionMultipliers (lines 319-325), in hundredths.
conditionMultipliers ==
  <<"A">> :> 100 @@ <<"B">> :> 92 @@ <<"C">> :> 82 @@ <<"D">> :> 70 @@ <<"P">> :> 60

\* Math.round(basePrice * hundredths / 100) for a positive integer basePrice.
\* The sample base prices have no product that ends in .5, where the
\* floating-point product may fall on the other side.
roundProduct(basePrice, hundredths) == (basePrice * hundredths + 50) \div 100

\* calculateVariantPrice(productGroup, condition), line 315.  A condition
\* naming a property of Object.prototype reads the inherited function.
calculateVariantPrice(productGroup, condition) ==
  IF condition \in DOMAIN conditionMultipliers
    THEN Num(roundProduct(basePriceOr999(productGroup), conditionMultipliers[condition]))
  ELSE IF condition \in ObjectPrototypeProps THEN NaN
  ELSE Num(roundProduct(basePriceOr999(productGroup), 85))

calculateComparePrice_allGrades(productGroup, condition) ==
  Num(roundProduct(basePriceOr999(productGroup), 115))

\* calculateComparePrice(productGroup, condition), line 332.
calculateComparePrice(productGroup, condition) ==
  IF condition = <<"A">> THEN Num(roundProduct(basePriceOr999(productGroup), 115))
  ELSE IF condition = <<"B">> THEN Num(roundProduct(basePriceOr999(productGroup), 108))
  ELSE Null

\* createEnhancedVariants(productGroup), line 256: the variants by the key
\* of the group's variant they are made from; the fields sku, weight and the
\* constant ones are left out.
createEnhancedVariants(productGroup) ==
  IF DOMAIN productGroup.variants # {}
    THEN [k \in DOMAIN productGroup.variants |->
            LET variant == productGroup.variants[k]
            IN  [title |-> variant.color \o <<" ","-"," ","G","r","a","d","e"," ">> \o variant.condition,
                 option1 |-> variant.color,
                 option2 |-> <<"G","r","a","d","e"," ">> \o variant.condition,
                 inventory_quantity |-> variant.quantity,
                 price |-> calculateVariantPrice(productGroup, variant.condition),
                 compare_at_price |-> calculateComparePrice(productGroup, variant.condition)]]
  ELSE <<"D","e","f","a","u","l","t">> :>
         [title |-> <<"D","e","f","a","u","l","t"," ","-"," ","G","r","a","d","e"," ","A">>,
          option1 |-> <<"D","e","f","a","u","l","t">>,
          option2 |-> <<"G","r","a","d","e"," ","A">>,
          inventory_quantity |-> Len(productGroup.items),
          price |-> Num(basePriceOr999(productGroup)),
          compare_at_price |-> Undefined]

\* Lines 608-645: for each new variant, the PUT to the existing variant with
\* the same two options, or the POST of a new variant.
variantRequests(existingProduct, newVariants) ==
  [k \in DOMAIN newVariants |->
     LET existing == existingProduct.variants
         existingVariant ==
           find(existing, {i \in 1..Len(existing) :
                             /\ existing[i].option1 = newVariants[k].option1
                             /\ existing[i].option2 = newVariants[k].option2})
     IN  IF existingVariant # Undefined
           THEN [method |-> "PUT", id |-> existingVariant.id]
         ELSE [method |-> "POST", id |-> 0]]

-----------------------------------------------------------------------------
(* setupCollections *)

\* Set.prototype.add of each name: the names in the order of first insertion.
RECURSIVE addAll(_, _)
addAll(set, names) ==
  IF names = <<>> THEN set
  ELSE addAll(IF Head(names) \in Range(set) THEN set ELSE Append(set, Head(names)),
              Tail(names))

\* Lines 146-151: the needed collections of the first n groups.
RECURSIVE neededCollections(_, _)
neededCollections(groups, n) ==
  IF n = 0 THEN <<>>
  ELSE addAll(neededCollections(groups, n - 1), groups[n].collections)

\* Line 158: the titles of the store's collections, in lower case.
existingCollectionNames(existing) == {toLowerCase(existing[i].title) : i \in 1..Len(existing)}

\* Lines 167-197: the needed names for which a collection is created, those
\* whose lower case is not among the names read at line 158.
RECURSIVE missingCollections(_, _)
missingCollections(needed, names) ==
  IF needed = <<>> THEN <<>>
  ELSE LET front == missingCollections(SubSeq(needed, 1, Len(needed) - 1), names)
           last == needed[Len(needed)]
       IN  IF toLowerCase(last) \in names THEN front ELSE Append(front, last)

\* An outbound call, or the delay of line 83, made for group n (0: for none).
Call(what, ok, n, title) == [call |-> what, ok |-> ok, group |-> n, title |-> title]

\* setupCollections (lines 142-200): the calls it makes.  The ids the store
\* gives, and the collects.json calls that use them, are not part of the state.
setupCollections(existing, groups) ==
  LET created == missingCollections(neededCollections(groups, Len(groups)),
                                    existingCollectionNames(existing))
  IN  <<Call("GET custom_collections.json", TRUE, 0, <<>>)>>
      \o [i \in 1..Len(created) |->
            Call("POST custom_collections.json", TRUE, 0, created[i])]

-----------------------------------------------------------------------------
(* Inputs of the sync *)

MaxGroups == 2
MaxProducts == 2

\* JSON.stringify writes NaN as null.
toJSON(group) ==
  [group EXCEPT !.basePrice = IF @.kind = "number" THEN @ ELSE Null]

\* The group that lines 931-976 make of one row, as it is posted.
GroupOf(row) ==
  LET x == extract(row, 0)
  IN  toJSON(groupItem(<<>>, <<>>, row, x).productGroups[groupKeyOf(x)])

\* The rows whose groups are posted.
SyncRows ==
  { ("Brand" :> <<"A","p","p","l","e">> @@ "Model" :> <<"M","a","c","B","o","o","k"," ","P","r","o"," ","1","4","-","i","n","c","h"," ","2","0","2","3">> @@ "Processor" :> <<"A","p","p","l","e"," ","M","3"," ","P","r","o">> @@ "Storage" :> <<"5","1","2","G","B">> @@ "Memory" :> <<"1","6","G","B">> @@ "Color" :> <<"S","p","a","c","e"," ","G","r","a","y">> @@ "Condition" :> <<"E","x","c","e","l","l","e","n","t">> @@ "Stock" :> <<"3">>),
    ("Brand" :> <<"A","p","p","l","e">> @@ "Model" :> <<"M","a","c","B","o","o","k"," ","P","r","o"," ","1","4","-","i","n","c","h"," ","2","0","2","3">> @@ "Processor" :> <<"A","p","p","l","e"," ","M","3"," ","P","r","o">> @@ "Storage" :> <<"5","1","2","G","B">> @@ "Memory" :> <<"3","2","G","B">> @@ "Color" :> <<"S","p","a","c","e"," ","G","r","a","y">> @@ "Condition" :> <<"E","x","c","e","l","l","e","n","t">> @@ "Stock" :> <<>>),
    ("Brand" :> <<"S","a","m","s","u","n","g">> @@ "Model" :> <<"G","a","l","a","x","y"," ","T","a","b">> @@ "Category" :> <<"T","a","b","l","e","t">>),
    ("Brand" :> <<"A","p","p","l","e">> @@ "Category" :> <<"c","o","n","s","t","r","u","c","t","o","r">> @@ "Model" :> <<"W","a","t","c","h">> @@ "Stock" :> <<"-","2">>),
    ("Brand" :> <<"A","p","p","l","e">> @@ "Category" :> <<"A","P","P","L","E">> @@ "Model" :> <<"W","a","t","c","h"," ","S","E">>) }

SampleGroups ==
  { GroupOf(row) : row \in SyncRows } \cup
  { [productType |-> <<"i","P","h","o","n","e">>, processor |-> <<"U","n","k","n","o","w","n">>, storage |-> <<"1","2","8","G","B">>,
     memory |-> <<"U","n","k","n","o","w","n">>,
     seoTitle |-> <<"i","P","h","o","n","e"," ","-"," ","1","2","8","G","B"," ","|"," ","C","e","r","t","i","f","i","e","d"," ","R","e","f","u","r","b","i","s","h","e","d">>,
     basePrice |-> Num(799), items |-> <<>>,
     variants |-> (<<"B","l","u","e","-","B">> :> [color |-> <<"B","l","u","e">>, condition |-> <<"B">>,
                                   quantity |-> 2, serialNumbers |-> <<>>]
                   @@ <<"B","l","u","e","-","U","s","e","d">> :> [color |-> <<"B","l","u","e">>, condition |-> <<"U","s","e","d">>,
                                         quantity |-> 1, serialNumbers |-> <<>>]),
     collections |-> <<<<"i","P","h","o","n","e">>, <<"A","p","p","l","e">>, <<"R","e","f","u","r","b","i","s","h","e","d">>>>],
    [productType |-> <<"M","a","c"," ","M","i","n","i">>, processor |-> <<"A","p","p","l","e"," ","M","2">>, storage |-> <<"2","5","6","G","B">>,
     memory |-> <<"8","G","B">>,
     seoTitle |-> <<"M","a","c"," ","M","i","n","i"," ","-"," ","A","p","p","l","e"," ","M","2",","," ","2","5","6","G","B",","," ","8","G","B"," ","|"," ","C","e","r","t","i","f","i","e","d"," ","R","e","f","u","r","b","i","s","h","e","d">>,
     basePrice |-> Num(799), items |-> <<>>, variants |-> <<>>,
     collections |-> <<<<"M","a","c"," ","M","i","n","i">>, <<"A","p","p","l","e">>, <<"R","e","f","u","r","b","i","s","h","e","d">>>>] }

SampleProducts ==
  { [id |-> 1, title |-> <<"M","A","C","B","O","O","K"," ","P","R","O"," ","-"," ","A","p","p","l","e"," ","M","3"," ","P","r","o",","," ","5","1","2","G","B",","," ","1","6","G","B"," ","|"," ","C","e","r","t","i","f","i","e","d"," ","R","e","f","u","r","b","i","s","h","e","d">>,
     tags |-> <<"r","e","f","u","r","b","i","s","h","e","d",","," ","a","p","p","l","e">>,
     variants |-> <<[id |-> 11, option1 |-> <<"S","p","a","c","e"," ","G","r","a","y">>, option2 |-> <<"G","r","a","d","e"," ","A">>]>>],
    [id |-> 2, title |-> <<"i","P","a","d"," ","A","i","r"," ","5","t","h"," ","g","e","n","e","r","a","t","i","o","n">>,
     tags |-> <<"t","a","b","l","e","t",","," ","i","p","a","d","-","a","i","r">>,
     variants |-> <<>>],
    [id |-> 3, title |-> <<"M","a","g","i","c"," ","K","e","y","b","o","a","r","d">>, tags |-> <<>>, variants |-> <<>>] }

\* The collections the store may already have.
SampleCollections ==
  { <<>>, <<[id |-> 7, title |-> <<"R","E","F","U","R","B","I","S","H","E","D">>], [id |-> 8, title |-> <<"i","P","a","d">>]>> }

\* The requests: the method, and which fields the parsed body has (line 29).
Events ==
  [httpMethod : {"OPTIONS", "GET", "POST"}, storeUrl : BOOLEAN, apiToken : BOOLEAN,
   productGroups : BOOLEAN]

\* Lines 20 and 31: a POST with storeUrl, apiToken and productGroups.
Complete(e) == e.httpMethod = "POST" /\ e.storeUrl /\ e.apiToken /\ e.productGroups

-----------------------------------------------------------------------------
(* The sync handler *)

\* The handler is entered.  The store is read only for a complete POST, so
\* its content and the posted groups vary for those.
InitSync ==
  /\ jsonData = <<>>
  /\ pc = "connect"
  /\ index = 0
  /\ verdict = <<>>
  /\ appleProducts = <<>>
  /\ productGroups = <<>>
  /\ categories = <<>>
  /\ caught = <<>>
  /\ response = NoResponse
  /\ condCall = NoCall
  /\ priceCall = NoCall
  /\ helperCall = NoCall
  /\ event \in Events
  /\ existingProducts \in SeqsUpTo(SampleProducts, IF Complete(event) THEN MaxProducts ELSE 0)
  /\ existingCollections \in (IF Complete(event) THEN SampleCollections ELSE {<<>>})
  /\ entries \in SeqsUpTo(SampleGroups, IF Complete(event) THEN MaxGroups
                                        ELSE IF event.productGroups THEN 1 ELSE 0)
  /\ results = NoResults
  /\ requests = <<>>
  /\ calls = <<>>

processVars == <<jsonData, verdict, appleProducts, productGroups, categories, caught,
                 condCall, priceCall, helperCall>>

storeVars == <<event, existingProducts, existingCollections, entries>>

\* Lines 12-18: the preflight request.
Preflight ==
  /\ pc = "connect"
  /\ event.httpMethod = "OPTIONS"
  /\ pc' = "done"
  /\ response' = [kind |-> "preflight", statusCode |-> 200]
  /\ UNCHANGED <<processVars, index, syncVars>>

\* Lines 20-26.
MethodNotAllowed ==
  /\ pc = "connect"
  /\ event.httpMethod \notin {"OPTIONS", "POST"}
  /\ pc' = "done"
  /\ response' = [kind |-> "error", statusCode |-> 405, error |-> "Method not allowed"]
  /\ UNCHANGED <<processVars, index, syncVars>>

MissingData_afterTest ==
  /\ pc = "connect"
  /\ event.httpMethod = "POST"
  /\ ~Complete(event)
  /\ pc' = "done"
  /\ calls' = Append(calls, Call("GET shop.json", FALSE, 0, <<>>))
  /\ response' = [kind |-> "error", statusCode |-> 400, error |-> "Missing required data"]
  /\ UNCHANGED <<processVars, index, storeVars, results, requests>>

\* Lines 29-37: a field of the body is missing.
MissingData ==
  /\ pc = "connect"
  /\ event.httpMethod = "POST"
  /\ ~Complete(event)
  /\ pc' = "done"
  /\ response' = [kind |-> "error", statusCode |-> 400, error |-> "Missing required data"]
  /\ UNCHANGED <<processVars, index, syncVars>>

\* Lines 46-49 and 98-104: the store refuses the connection test.
ConnectionFailed ==
  /\ pc = "connect"
  /\ Complete(event)
  /\ pc' = "done"
  /\ calls' = Append(calls, Call("GET shop.json", FALSE, 0, <<>>))
  /\ response' = [kind |-> "error", statusCode |-> 500,
                  error |-> "Sync failed: Shopify connection failed"]
  /\ UNCHANGED <<processVars, index, storeVars, results, requests>>

\* Lines 46-49: the connection test passes.
Connected ==
  /\ pc = "connect"
  /\ Complete(event)
  /\ pc' = "list"
  /\ calls' = Append(calls, Call("GET shop.json", TRUE, 0, <<>>))
  /\ UNCHANGED <<processVars, index, response, storeVars, results, requests>>

\* Lines 52-55 and 98-104: reading the products (line 119) or the
\* collections (line 154) of the store throws, which only the outer catch
\* handles.
ListingFailed ==
  /\ pc = "list"
  /\ pc' = "done"
  /\ calls' = Append(calls, Call("GET products.json", FALSE, 0, <<>>))
  /\ response' = [kind |-> "error", statusCode |-> 500, error |-> "Sync failed"]
  /\ UNCHANGED <<processVars, index, storeVars, results, requests>>

\* Lines 52-65: the products of the store are read, the missing collections
\* are created and the counters start at 0.
SetupCollections ==
  /\ pc = "list"
  /\ pc' = "sync"
  /\ calls' = Append(calls, Call("GET products.json", TRUE, 0, <<>>))
                \o setupCollections(existingCollections, entries)
  /\ UNCHANGED <<processVars, index, response, storeVars, results, requests>>

CreateRejected_uncounted ==
  /\ pc = "sync"
  /\ index < Len(entries)
  /\ LET productGroup == entries[index + 1]
     IN  /\ findExistingProduct(existingProducts, productGroup) = Undefined
         /\ requests' = Append(requests,
               [op |-> "create", ok |-> FALSE, id |-> 0,
                title |-> productGroup.seoTitle,
                variants |-> createEnhancedVariants(productGroup),
                variantRequests |-> <<>>])
         /\ calls' = Append(calls, Call("POST products.json", FALSE, index + 1,
                                        productGroup.seoTitle))
  /\ index' = index + 1
  /\ UNCHANGED <<processVars, pc, response, storeVars, results>>

\* Lines 70-75, 83 and 586-655: the group matches a product, which is
\* updated; then the delay of line 83.
UpdateExisting ==
  /\ pc = "sync"
  /\ index < Len(entries)
  /\ LET productGroup == entries[index + 1]
         existingProduct == findExistingProduct(existingProducts, productGroup)
         newVariants == createEnhancedVariants(productGroup)
     IN  /\ existingProduct # Undefined
         /\ requests' = Append(requests,
               [op |-> "update", ok |-> TRUE, id |-> existingProduct.id,
                title |-> productGroup.seoTitle, variants |-> newVariants,
                variantRequests |-> variantRequests(existingProduct, newVariants)])
         /\ calls' = calls \o <<Call("PUT products/id.json", TRUE, index + 1,
                                     productGroup.seoTitle),
                                Call("delay", TRUE, index + 1, <<>>)>>
         /\ results' = [results EXCEPT
                          !.updated = @ + 1,
                          !.details = Append(@, <<"Updated", productGroup.seoTitle>>)]
  /\ index' = index + 1
  /\ UNCHANGED <<processVars, pc, response, storeVars>>

\* Lines 70, 76-79, 83 and 203-253: no product matches, one is created; then
\* the delay of line 83.
CreateNew ==
  /\ pc = "sync"
  /\ index < Len(entries)
  /\ LET productGroup == entries[index + 1]
     IN  /\ findExistingProduct(existingProducts, productGroup) = Undefined
         /\ requests' = Append(requests,
               [op |-> "create", ok |-> TRUE, id |-> 0,
                title |-> productGroup.seoTitle,
                variants |-> createEnhancedVariants(productGroup),
                variantRequests |-> <<>>])
         /\ calls' = calls \o <<Call("POST products.json", TRUE, index + 1,
                                     productGroup.seoTitle),
                                Call("delay", TRUE, index + 1, <<>>)>>
         /\ results' = [results EXCEPT
                          !.created = @ + 1,
                          !.details = Append(@, <<"Created", productGroup.seoTitle>>)]
  /\ index' = index + 1
  /\ UNCHANGED <<processVars, pc, response, storeVars>>

\* Lines 70, 77, 236-245 and 85-89: no product matches and the store answers
\* the creation with an error, which the catch of line 85 counts; the delay
\* of line 83 is skipped.
CreateRejected ==
  /\ pc = "sync"
  /\ index < Len(entries)
  /\ LET productGroup == entries[index + 1]
     IN  /\ findExistingProduct(existingProducts, productGroup) = Undefined
         /\ requests' = Append(requests,
               [op |-> "create", ok |-> FALSE, id |-> 0,
                title |-> productGroup.seoTitle,
                variants |-> createEnhancedVariants(productGroup),
                variantRequests |-> <<>>])
         /\ calls' = Append(calls, Call("POST products.json", FALSE, index + 1,
                                        productGroup.seoTitle))
         /\ results' = [results EXCEPT
                          !.errors = @ + 1,
                          !.details = Append(@, <<"Error", productGroup.seoTitle>>)]
  /\ index' = index + 1
  /\ UNCHANGED <<processVars, pc, response, storeVars>>

\* Lines 92-96: the counters are returned.
ReturnResults ==
  /\ pc = "sync"
  /\ index = Len(entries)
  /\ pc' = "done"
  /\ response' = [kind |-> "results", statusCode |-> 200, results |-> results]
  /\ UNCHANGED <<processVars, index, syncVars>>

NextSync ==
  \/ Preflight
  \/ MethodNotAllowed
  \/ MissingData
  \/ ConnectionFailed
  \/ Connected
  \/ ListingFailed
  \/ SetupCollections
  \/ UpdateExisting
  \/ CreateNew
  \/ CreateRejected
  \/ ReturnResults

SpecSync == InitSync /\ [][NextSync]_vars
-----------------------------------------------------------------------------
(* Properties *)

Done == pc = "done"

\* The fields of row i as the filter resolves them.
BrandOf(i) == findValue(jsonData[i], FilterBrandNames)
CategoryOf(i) == findValue(jsonData[i], FilterCategoryNames)
ModelOf(i) == findValue(jsonData[i], FilterModelNames)
StockFieldOf(i) == findValue(jsonData[i], FilterStockNames)

Filtered == 1..Len(verdict)

ContainsAnyCase(s, word) == includes(toLowerCase(s), word)

IsApple(i) == ContainsAnyCase(BrandOf(i), <<"a","p","p","l","e">>)

IsOutOfStock(i) ==
  StockFieldOf(i) = <<"0">> \/ ContainsAnyCase(StockFieldOf(i), <<"o","u","t">>)

RowC1 ==
  ("Brand" :> <<"A","p","p","l","e">> @@ "Model" :> <<"M","a","c","B","o","o","k"," ","P","r","o"," ","1","4","-","i","n","c","h"," ","2","0","2","3">> @@ "Processor" :> <<"A","p","p","l","e"," ","M","3"," ","P","r","o">> @@ "Storage" :> <<"5","1","2","G","B">> @@ "Memory" :> <<"1","6","G","B">> @@ "Color" :> <<"S","p","a","c","e"," ","G","r","a","y">> @@ "Condition" :> <<"E","x","c","e","l","l","e","n","t">> @@ "Stock" :> <<"3">>)

\* C1: aggregating the single row RowC1 yields exactly one product group whose
\* variants mapping has exactly one entry, with color 'Space Gray', condition
\* 'A' and quantity 3, with categories = {'MacBook Pro': 1} and totalItems = 1.
C1_SingleRowOneGroup ==
  (Done /\ jsonData = <<RowC1>>) =>
    /\ response.kind = "success"
    /\ response.totalItems = 1
    /\ response.categories = (<<"M","a","c","B","o","o","k"," ","P","r","o">> :> Num(1))
    /\ Cardinality(DOMAIN response.productGroups) = 1
    /\ \A k \in DOMAIN response.productGroups :
         LET variants == response.productGroups[k].variants
         IN  /\ Cardinality(DOMAIN variants) = 1
             /\ \A v \in DOMAIN variants :
                  /\ variants[v].color = <<"S","p","a","c","e"," ","G","r","a","y">>
                  /\ variants[v].condition = <<"A">>
                  /\ variants[v].quantity = 3

\* C2 as claimed: every row whose brand contains 'apple' in any letter case is
\* kept by the filter, whatever its other fields hold.
C2_AppleBrandAlwaysKept ==
  \A i \in Filtered : IsApple(i) => verdict[i]

\* C2 as amended: every row whose brand contains 'apple' in any letter case
\* and whose stock field is neither '0' nor contains 'out' is kept by the
\* filter, whatever its category and model hold.
C2_AppleBrandKeptWhenInStock ==
  \A i \in Filtered : (IsApple(i) /\ ~IsOutOfStock(i)) => verdict[i]

\* An in-stock Apple row with neither category nor model has been kept.
C2_Witness ==
  \E i \in Filtered :
    /\ IsApple(i) /\ ~IsOutOfStock(i)
    /\ CategoryOf(i) = <<>> /\ ModelOf(i) = <<>>
    /\ verdict[i]

\* C3: every row whose stock field is '0' or contains 'out' in any letter case
\* is rejected by the filter, also when its brand is Apple or its category or
\* model matches an inclusion rule.
C3_OutOfStockRejected ==
  \A i \in Filtered : IsOutOfStock(i) => ~verdict[i]

\* A row with stock '0' has been rejected although its brand is Apple and its
\* category matches an inclusion rule.
C3_Witness ==
  \E i \in Filtered :
    /\ StockFieldOf(i) = <<"0">>
    /\ IsApple(i) /\ ContainsAnyCase(CategoryOf(i), <<"t","a","b","l","e","t">>)
    /\ ~verdict[i]

\* C4 as claimed: every row whose category and model are both empty is
\* rejected by the filter.
C4_EmptyCategoryAndModelRejected ==
  \A i \in Filtered : (CategoryOf(i) = <<>> /\ ModelOf(i) = <<>>) => ~verdict[i]

\* C4 as amended: every row whose category and model are both empty and whose
\* brand does not contain 'apple' is rejected by the filter.
C4_EmptyNonAppleRejected ==
  \A i \in Filtered :
    (CategoryOf(i) = <<>> /\ ModelOf(i) = <<>> /\ ~IsApple(i)) => ~verdict[i]

\* An in-stock row of another brand with neither category nor model has been
\* rejected.
C4_Witness ==
  \E i \in Filtered :
    /\ CategoryOf(i) = <<>> /\ ModelOf(i) = <<>>
    /\ BrandOf(i) = <<"S","a","m","s","u","n","g">> /\ ~IsOutOfStock(i)
    /\ ~verdict[i]

ClaimedCategoryWords ==
  { <<"l","a","p","t","o","p">>, <<"m","a","c","b","o","o","k">>, <<"t","a","b","l","e","t">>, <<"p","h","o","n","e">>, <<"d","e","s","k","t","o","p">>, <<"a","c","c","e","s","s","o","r","y">>,
    <<"a","c","c","e","s","s","o","r","i","e","s">>, <<"m","i","n","i">>, <<"a","i","r">>, <<"p","r","o">> }

ClaimedModelWords ==
  { <<"m","a","c","b","o","o","k">>, <<"i","p","a","d">>, <<"i","p","h","o","n","e">>, <<"i","m","a","c">>, <<"a","i","r","p","o","d">>, <<"m","a","g","i","c">> }

ClaimedInclusion(i) ==
  \/ IsApple(i)
  \/ \E w \in ClaimedCategoryWords : ContainsAnyCase(CategoryOf(i), w)
  \/ \E w \in ClaimedModelWords : ContainsAnyCase(ModelOf(i), w)

\* C5: a row that is not out of stock is kept by the filter exactly when its
\* brand contains 'apple', or its category contains one of laptop, macbook,
\* tablet, phone, desktop, accessory, accessories, mini, air, pro, or its model
\* contains one of macbook, ipad, iphone, imac, airpod, magic.
C5_InclusionRule ==
  \A i \in Filtered : ~IsOutOfStock(i) => (verdict[i] <=> ClaimedInclusion(i))

Grades == { <<"A">>, <<"B">>, <<"C">>, <<"D">>, <<"P">> }

GradedWords ==
  { <<"A">>, <<"B">>, <<"C">>, <<"D">>, <<"P">>, <<"E","X","C","E","L","L","E","N","T">>, <<"V","E","R","Y"," ","G","O","O","D">>, <<"G","O","O","D">>,
    <<"F","A","I","R">>, <<"P","O","O","R">> }

\* C6: condition normalization gives a member of {A, B, C, D, P} for every
\* input, and gives 'A' for every input that is not, in some letter case, one
\* of A, B, C, D, P, Excellent, Very Good, Good, Fair, Poor.
C6_ClosedSetAndDefault ==
  condCall.called =>
    /\ condCall.result \in Grades
    /\ toUpperCase(condCall.condition) \notin GradedWords => condCall.result = <<"A">>

ClaimedGrade ==
  <<"E","x","c","e","l","l","e","n","t">> :> <<"A">> @@ <<"V","e","r","y"," ","G","o","o","d">> :> <<"B">> @@ <<"G","o","o","d">> :> <<"C">> @@
  <<"F","a","i","r">> :> <<"D">> @@ <<"P","o","o","r">> :> <<"D">> @@ <<"A">> :> <<"A">> @@ <<"B">> :> <<"B">> @@
  <<"C">> :> <<"C">> @@ <<"D">> :> <<"D">> @@ <<"P">> :> <<"P">>

\* C7: condition normalization maps Excellent to A, Very Good to B, Good to C,
\* Fair to D, Poor to D, and each of the letters A, B, C, D, P to itself.
C7_GradeTable ==
  (condCall.called /\ condCall.condition \in DOMAIN ClaimedGrade) =>
    condCall.result = ClaimedGrade[condCall.condition]

\* The item records of group k that were made from row r.
ItemsOf(groups, k, r) ==
  {n \in 1..Len(groups[k].items) : groups[k].items[n].originalData = r}

\* C8: for every row r, aggregating [r, r] gives the group keys of aggregating
\* [r], and r's group then holds twice the item records and, for r's color and
\* condition, twice the variant quantity of aggregating [r].
C8_SameRowTwiceDoubles ==
  \A r \in SampleRows :
    (Done /\ appleProducts = <<r, r>>) =>
      LET once == createProductGroups(<<r>>).productGroups
          twice == response.productGroups
      IN  /\ DOMAIN twice = DOMAIN once
          /\ \E k \in DOMAIN twice :
               /\ ItemsOf(twice, k, r) # {}
               /\ Len(twice[k].items) = 2 * Len(once[k].items)
               /\ \A v \in DOMAIN once[k].variants :
                    twice[k].variants[v].quantity = 2 * once[k].variants[v].quantity

SameSpecs(x, y) ==
  /\ x.productType = y.productType
  /\ x.cleanProcessor = y.cleanProcessor
  /\ x.cleanStorage = y.cleanStorage
  /\ x.cleanMemory = y.cleanMemory

\* C9: two rows with the same normalized productType, processor, storage and
\* memory (the code derives no display size) but another normalized color or
\* condition are placed in one and the same group, whose variants mapping
\* holds two variant keys, one per row.
C9_OneGroupTwoVariants ==
  (Done /\ Len(appleProducts) = 2) =>
    LET x == extract(appleProducts[1], 0)
        y == extract(appleProducts[2], 1)
        groups == response.productGroups
    IN  (SameSpecs(x, y) /\ <<x.cleanColor, x.cleanCondition>>
                              # <<y.cleanColor, y.cleanCondition>>) =>
          /\ Cardinality(DOMAIN groups) = 1
          /\ \E k \in DOMAIN groups :
               /\ ItemsOf(groups, k, appleProducts[1]) # {}
               /\ ItemsOf(groups, k, appleProducts[2]) # {}
               /\ Cardinality(DOMAIN groups[k].variants) = 2

TablePrice(productType) ==
  IF productType \in DOMAIN basePrices THEN basePrices[productType] ELSE 999

\* C10: the base price is a strictly positive number and is never lower than
\* the table price of the productType (999 for an unrecognized one) scaled by
\* the smallest multipliers, 0.85 for the processor and 1 for the storage.
C10_BasePricePositiveAboveFloor ==
  priceCall.called =>
    /\ priceCall.result.kind = "number"
    /\ priceCall.result.value > 0
    /\ 100 * priceCall.result.value >= 85 * TablePrice(priceCall.productType)


RECURSIVE Without(_, _)
Without(rows, skipped) ==
  IF rows = <<>> THEN <<>>
  ELSE LET front == Without(SubSeq(rows, 1, Len(rows) - 1), skipped)
       IN  IF Len(rows) - 1 \in skipped THEN front ELSE Append(front, rows[Len(rows)])

RECURSIVE SumOver(_, _)
SumOver(f, keys) ==
  IF keys = {} THEN 0
  ELSE LET k == CHOOSE k \in keys : TRUE IN f[k] + SumOver(f, keys \ {k})

\* The number of item records over all groups.
ItemRecords(groups) == SumOver([k \in DOMAIN groups |-> Len(groups[k].items)], DOMAIN groups)

\* C13: the totalItems that aggregation returns is the number of rows that
\* were accumulated into groups, the number of item records over all groups.
C13_TotalItemsCountsItemRecords ==
  (Done /\ response.kind = "success") =>
    response.totalItems = ItemRecords(response.productGroups)

DifferentSpecs(x, y) ==
  \/ x.productType # y.productType
  \/ x.cleanProcessor # y.cleanProcessor
  \/ x.cleanStorage # y.cleanStorage
  \/ x.cleanMemory # y.cleanMemory

\* C14: every item stored in a group has the normalized productType,
\* processor, storage and memory of the group record, and two rows that
\* differ in one of these fields never get the same group key.
C14_GroupKeySeparatesSpecs ==
  /\ \A k \in DOMAIN productGroups : \A n \in 1..Len(productGroups[k].items) :
       LET x == extract(productGroups[k].items[n].originalData, 0)
           g == productGroups[k]
       IN  <<x.productType, x.cleanProcessor, x.cleanStorage, x.cleanMemory>>
             = <<g.productType, g.processor, g.storage, g.memory>>
  /\ \A i, j \in 1..index :
       LET x == extract(appleProducts[i], i - 1)
           y == extract(appleProducts[j], j - 1)
       IN  (pc # "filter" /\ DifferentSpecs(x, y)) => groupKeyOf(x) # groupKeyOf(y)

\* The stock value of a row: its stock field read as a number, 1 without one.
ClaimedStock(row) ==
  LET field == findValue(row, <<"Stock", "Quantity", "Qty">>)
  IN  IF field = <<>> \/ parseInt(field).kind # "number" THEN 1 ELSE parseInt(field).value

\* C15: at the end of aggregation every aggregated row is an item of a group,
\* and for every group and variant key the quantity is the sum, over the rows
\* of the group with that color and condition, of the row's stock value.
C15_QuantityIsStockSum ==
  (Done /\ response.kind = "success") =>
    LET groups == response.productGroups
        stockSum(k, v) ==
          LET its == groups[k].items
              mine == {n \in 1..Len(its) :
                         /\ its[n].color = groups[k].variants[v].color
                         /\ its[n].condition = groups[k].variants[v].condition}
          IN  SumOver([n \in mine |-> ClaimedStock(its[n].originalData)], mine)
    IN  /\ \A i \in 1..Len(appleProducts) :
             \E k \in DOMAIN groups : ItemsOf(groups, k, appleProducts[i]) # {}
        /\ \A k \in DOMAIN groups : \A v \in DOMAIN groups[k].variants :
             groups[k].variants[v].quantity = stockSum(k, v)

\* C16: adding a processed row to a variant never lowers the variant's
\* quantity, whatever the row's stock field holds.
C16_QuantityNeverDecreases ==
  \A i \in 1..index :
    pc # "filter" =>
      LET x == extract(appleProducts[i], i - 1)
          variant == [color |-> x.cleanColor, condition |-> x.cleanCondition,
                      quantity |-> 0, serialNumbers |-> <<>>]
      IN  updateVariant(variant, x).quantity >= variant.quantity

\* What the result of an aggregation is compared on across input orders.
Comparable(out) ==
  [groups |-> [k \in DOMAIN out.productGroups |->
                 LET g == out.productGroups[k]
                 IN  [productType |-> g.productType, processor |-> g.processor,
                      storage |-> g.storage, memory |-> g.memory,
                      seoTitle |-> g.seoTitle, basePrice |-> g.basePrice,
                      collections |-> g.collections,
                      quantities |-> [v \in DOMAIN g.variants |-> g.variants[v].quantity]]],
   categories |-> out.categories]

\* Lines 931-976 applied to row a and then to row b.
GroupedInOrder(a, b) ==
  LET first == groupItem(<<>>, <<>>, a, extract(a, 0))
  IN  groupItem(first.productGroups, first.categories, b, extract(b, 1))

\* C17: aggregating two rows in either order gives the same group keys and,
\* per key, the same productType, processor, storage, memory, seoTitle,
\* basePrice, collections and variant quantities, and the same category counts.
C17_OrderIndependent ==
  (Done /\ Len(appleProducts) = 2) =>
    Comparable(GroupedInOrder(appleProducts[1], appleProducts[2]))
      = Comparable(GroupedInOrder(appleProducts[2], appleProducts[1]))

\* A row in which aggregation finds neither a model nor a category.
NoModelNoCategory(row) ==
  /\ findValue(row, <<"Model", "Product", "Name">>) = <<>>
  /\ findValue(row, <<"Sub-Category", "Category", "Type">>) = <<>>

\* C20: a row with neither model nor category makes no group, adds no item,
\* is counted neither in the category counts nor in totalItems, and the call
\* returns normally.
C20_RowsWithoutModelAndCategorySkipped ==
  (Done /\ response.kind = "success") =>
    LET skipped == {i \in 1..Len(appleProducts) : NoModelNoCategory(appleProducts[i])}
        groups == response.productGroups
        counted == SumOver([k \in DOMAIN response.categories |->
                              response.categories[k].value], DOMAIN response.categories)
    IN  /\ \A i \in skipped : \A k \in DOMAIN groups :
             ItemsOf(groups, k, appleProducts[i]) = {}
        /\ counted <= Len(appleProducts) - Cardinality(skipped)
        /\ response.totalItems <= Len(appleProducts) - Cardinality(skipped)

\* The store's products that carry the title of the group, letter case aside.
SameTitle(productGroup) ==
  {i \in 1..Len(existingProducts) :
     toLowerCase(existingProducts[i].title) = toLowerCase(productGroup.seoTitle)}

\* C18: a group updates a product only if the product's title is the group's
\* seoTitle (letter case aside), and a creation is requested exactly when no
\* product of the store has that title.
C18_SeoTitleIsLookupKey ==
  \A n \in 1..Len(requests) :
    /\ requests[n].op = "update" =>
         \E i \in SameTitle(entries[n]) : existingProducts[i].id = requests[n].id
    /\ requests[n].op = "create" <=> SameTitle(entries[n]) = {}

\* The multipliers of the claim, in hundredths.
ClaimedMultipliers ==
  <<"A">> :> 100 @@ <<"B">> :> 92 @@ <<"C">> :> 82 @@ <<"D">> :> 70 @@ <<"P">> :> 60

\* The condition of a built variant: its second option without 'Grade '.
ConditionOf(variant) == SubSeq(variant.option2, 7, Len(variant.option2))

\* round(b * hundredths / 100), halves upward.
Rounded(b, hundredths) ==
  LET whole == (b * hundredths) \div 100
      rest == (b * hundredths) % 100
  IN  IF rest >= 50 THEN whole + 1 ELSE whole

ClaimedModelRules ==
  { <<<<"m","a","c","b","o","o","k"," ","p","r","o">>, <<"M","a","c","B","o","o","k"," ","P","r","o">>>>, <<<<"m","a","c","b","o","o","k"," ","a","i","r">>, <<"M","a","c","B","o","o","k"," ","A","i","r">>>>,
    <<<<"m","a","c","b","o","o","k">>, <<"M","a","c","B","o","o","k">>>>, <<<<"i","p","a","d"," ","p","r","o">>, <<"i","P","a","d"," ","P","r","o">>>>,
    <<<<"i","p","a","d"," ","a","i","r">>, <<"i","P","a","d"," ","A","i","r">>>>, <<<<"i","p","a","d"," ","m","i","n","i">>, <<"i","P","a","d"," ","M","i","n","i">>>>,
    <<<<"i","p","a","d">>, <<"i","P","a","d">>>>, <<<<"i","p","h","o","n","e">>, <<"i","P","h","o","n","e">>>>, <<<<"i","m","a","c">>, <<"i","M","a","c">>>>,
    <<<<"m","a","c"," ","m","i","n","i">>, <<"M","a","c"," ","M","i","n","i">>>>, <<<<"m","a","c"," ","s","t","u","d","i","o">>, <<"M","a","c"," ","S","t","u","d","i","o">>>>,
    <<<<"a","i","r","p","o","d">>, <<"A","i","r","P","o","d","s">>>> }

\* The model rules that match a model.
MatchingRules(model) == {r \in ClaimedModelRules : ContainsAnyCase(model, r[1])}

\* The category rules of the claim, then the raw category, then 'Apple Product'.
ClaimedCategoryType(category) ==
  IF ContainsAnyCase(category, <<"l","a","p","t","o","p">>) THEN <<"M","a","c","B","o","o","k">>
  ELSE IF ContainsAnyCase(category, <<"t","a","b","l","e","t">>) THEN <<"i","P","a","d">>
  ELSE IF ContainsAnyCase(category, <<"p","h","o","n","e">>) THEN <<"i","P","h","o","n","e">>
  ELSE IF ContainsAnyCase(category, <<"d","e","s","k","t","o","p">>) THEN <<"i","M","a","c">>
  ELSE IF category # <<>> THEN category
  ELSE <<"A","p","p","l","e"," ","P","r","o","d","u","c","t">>

\* C21: the product type is the type of a model rule that matches, the more
\* specific 'macbook pro' before 'macbook' and 'ipad pro', 'ipad air', 'ipad mini'
\* before 'ipad'; only when no model rule matches, the first category rule among
\* laptop, tablet, phone, desktop, else the raw category, else 'Apple Product'.
C21_FirstMatchChain ==
  (helperCall.called /\ helperCall.fn = "determineProductType") =>
    LET model == helperCall.model
        result == helperCall.result
    IN  /\ MatchingRules(model) # {} => \E r \in MatchingRules(model) : result = r[2]
        /\ ContainsAnyCase(model, <<"m","a","c","b","o","o","k"," ","p","r","o">>) => result = <<"M","a","c","B","o","o","k"," ","P","r","o">>
        /\ \/ ContainsAnyCase(model, <<"i","p","a","d"," ","p","r","o">>)
           \/ ContainsAnyCase(model, <<"i","p","a","d"," ","a","i","r">>)
           \/ ContainsAnyCase(model, <<"i","p","a","d"," ","m","i","n","i">>)
           => result # <<"i","P","a","d">>
        /\ MatchingRules(model) = {} => result = ClaimedCategoryType(helperCall.category)

\* determineProductType has answered 'MacBook Pro' for a model that contains
\* 'macbook pro', under a category whose rule says iPad.
C21_Witness ==
  /\ helperCall.called /\ helperCall.fn = "determineProductType"
  /\ helperCall.model = <<"M","a","c","B","o","o","k"," ","P","r","o"," ","1","4","-","i","n","c","h"," ","2","0","2","3">>
  /\ helperCall.category = <<"T","a","b","l","e","t">>
  /\ helperCall.result = <<"M","a","c","B","o","o","k"," ","P","r","o">>

\* round(p / q), halves upward.
RoundedRatio(p, q) == IF 2 * (p % q) >= q THEN p \div q + 1 ELSE p \div q

\* The processor tier of the claim, in hundredths.
ClaimedProcessorTier(processor) ==
  IF includes(processor, <<"M","3">>) THEN 120
  ELSE IF includes(processor, <<"M","2">>) THEN 110
  ELSE IF includes(processor, <<"M","1">>) THEN 100
  ELSE IF includes(processor, <<"I","n","t","e","l">>) THEN 85
  ELSE 100

\* The storage of the claim in GB: the number of the string, times 1000
\* when the unit is TB.
ClaimedGB(storage) ==
  IF firstDigits(storage) = <<>> THEN 0
  ELSE IF ContainsAnyCase(storage, <<"T","B">>) THEN 1000 * DigitsToInt(firstDigits(storage))
  ELSE DigitsToInt(firstDigits(storage))

\* The storage tier of the claim, in hundredths.
ClaimedStorageTier(storage) ==
  IF ClaimedGB(storage) >= 1000 THEN 130
  ELSE IF ClaimedGB(storage) >= 512 THEN 115
  ELSE 100

ClaimedBasePrice(productType, processor, storage) ==
  LET T == IF productType \in DOMAIN basePrices THEN basePrices[productType] ELSE 999
  IN  RoundedRatio(T * ClaimedProcessorTier(processor) * ClaimedStorageTier(storage), 10000)

\* The processors of the sample rows with a product type and a storage, and
\* 'Unknown'.
ProcessorsOf(productType, storage) ==
  {<<"U","n","k","n","o","w","n">>} \cup
  {extract(row, 0).cleanProcessor : row \in
     {r \in SampleRows : /\ extract(r, 0).productType = productType
                         /\ extract(r, 0).cleanStorage = storage}}

\* C22: the base price of a group is round(T x P x S): T the table price of
\* its product type (999 if unrecognized), P the processor tier, S the storage
\* tier (1.3 from 1TB on, 1.15 from 512GB on).  The product types that name an
\* inherited property, whose price is not a number (C10), are left aside.
C22_BasePriceTiers ==
  (priceCall.called /\ priceCall.productType \notin ObjectPrototypeProps) =>
    \A processor \in ProcessorsOf(priceCall.productType, priceCall.storage) :
      priceCall.result =
        Num(ClaimedBasePrice(priceCall.productType, processor, priceCall.storage))

\* The digits and points of s that end right before position i.
RECURSIVE NumberBefore(_, _)
NumberBefore(s, i) ==
  IF i > 1 /\ s[i - 1] \in Range(Digits) \cup {"."}
    THEN Append(NumberBefore(s, i - 1), s[i - 1])
  ELSE <<>>

\* The display size of the claim: the number in front of the first '-inch' of
\* the model, with that marker; the empty string when there is none.
ClaimedDisplaySize(model) ==
  LET at == {i \in 1..(Len(model) - 4) :
               SubSeq(model, i, i + 4) = <<"-","i","n","c","h">> /\ NumberBefore(model, i) # <<>>}
  IN  IF at = {} THEN <<>>
      ELSE NumberBefore(model, CHOOSE i \in at : \A j \in at : i <= j) \o <<"-","i","n","c","h">>

\* The year of the claim: the first four digits of the model that begin
\* with 20; the empty string when there are none.
ClaimedYear(model) ==
  LET at == {i \in 1..(Len(model) - 3) :
               /\ model[i] = "2" /\ model[i + 1] = "0"
               /\ model[i + 2] \in Range(Digits) /\ model[i + 3] \in Range(Digits)}
  IN  IF at = {} THEN <<>>
      ELSE LET i == CHOOSE i \in at : \A j \in at : i <= j IN SubSeq(model, i, i + 3)

RECURSIVE Joined(_)
Joined(specs) ==
  IF specs = <<>> THEN <<>>
  ELSE IF Len(specs) = 1 THEN specs[1]
  ELSE Joined(SubSeq(specs, 1, Len(specs) - 1)) \o <<","," ">> \o specs[Len(specs)]

ClaimedTitle(x) ==
  LET specs == SelectSeq(<<x.cleanProcessor, x.cleanStorage, x.cleanMemory>>,
                         LAMBDA s : s # <<"U","n","k","n","o","w","n">>)
      displaySize == ClaimedDisplaySize(x.model)
      year == ClaimedYear(x.model)
  IN  x.productType
      \o (IF displaySize # <<>> THEN <<" ">> \o displaySize ELSE <<>>)
      \o (IF year # <<>> THEN <<" ","(">> \o year \o <<")">> ELSE <<>>)
      \o (IF specs # <<>> THEN <<" ","-"," ">> \o Joined(specs) ELSE <<>>)
      \o <<" ","|"," ","C","e","r","t","i","f","i","e","d"," ","R","e","f","u","r","b","i","s","h","e","d">>

\* C23: the seoTitle of the group of every processed row is its productType,
\* then the display size and the year in parentheses where known, then ' - '
\* and the specs that are not 'Unknown' joined by ', ', then
\* ' | Certified Refurbished'.
C23_SeoTitleFormat ==
  \A i \in 1..index :
    pc # "filter" =>
      LET x == extract(appleProducts[i], i - 1)
      IN  createSEOTitle(x.productType, x.cleanProcessor, x.cleanStorage, x.cleanMemory)
            = ClaimedTitle(x)

\* C24: the collections of the group of every processed row contain its
\* productType, 'Refurbished' and 'Apple', and no value twice.
C24_CollectionsDistinct ==
  \A i \in 1..index :
    pc # "filter" =>
      LET x == extract(appleProducts[i], i - 1)
          collections == GroupOf(appleProducts[i]).collections
      IN  /\ {x.productType, <<"R","e","f","u","r","b","i","s","h","e","d">>, <<"A","p","p","l","e">>} \subseteq Range(collections)
          /\ Cardinality(Range(collections)) = Len(collections)

\* The text of a cell: the decimal digits of a numeric cell.
CellText(cell) == IF cell # <<>> /\ cell[1] = "number" THEN Tail(cell) ELSE cell

\* The aliases of a list whose cell in the row is present and not empty
\* after trimming, by position.
Filled(item, possibleNames) ==
  {n \in 1..Len(possibleNames) :
     /\ possibleNames[n] \in DOMAIN item
     /\ trim(CellText(item[possibleNames[n]])) # <<>>}

\* C25: findValue returns the trimmed value of the first alias, in list
\* order, whose cell is present and not empty after trimming, and the empty
\* string when there is none.
C25_FirstFilledAlias ==
  (helperCall.called /\ helperCall.fn = "findValue") =>
    LET filled == Filled(helperCall.item, helperCall.possibleNames)
    IN  helperCall.result =
          IF filled = {} THEN <<>>
          ELSE LET first == CHOOSE n \in filled : \A m \in filled : n <= m
               IN  trim(CellText(helperCall.item[helperCall.possibleNames[first]]))

\* Lines 931-976 applied to the first n rows in turn.
RECURSIVE GroupedAll(_, _)
GroupedAll(rows, n) ==
  IF n = 0 THEN [threw |-> FALSE, productGroups |-> <<>>, categories |-> <<>>]
  ELSE LET before == GroupedAll(rows, n - 1)
       IN  groupItem(before.productGroups, before.categories, rows[n],
                     extract(rows[n], n - 1))

\* C28: after every processed row, the variant quantities of every group add
\* up to the stock values of its item records, and the category counts add up
\* to the number of item records over all groups.
C28_QuantitiesAndCountsAddUp ==
  pc # "filter" =>
    LET out == GroupedAll(appleProducts, index)
        groups == out.productGroups
        counts == out.categories
    IN  /\ \A k \in DOMAIN groups :
             SumOver([v \in DOMAIN groups[k].variants |-> groups[k].variants[v].quantity],
                     DOMAIN groups[k].variants)
               = SumOver([n \in 1..Len(groups[k].items) |-> groups[k].items[n].stock],
                         1..Len(groups[k].items))
        /\ \A t \in DOMAIN counts : counts[t].kind = "number"
        /\ SumOver([t \in DOMAIN counts |-> counts[t].value], DOMAIN counts)
             = ItemRecords(groups)

\* C26: the first outbound call for a group that is not the first comes
\* right after the delay that follows the calls of the group before it,
\* whether those succeeded or failed.
C26_DelayBetweenGroups ==
  \A i \in 1..Len(calls) :
    (calls[i].group >= 2 /\ calls[i].call # "delay") =>
      /\ calls[i - 1].call = "delay"
      /\ calls[i - 1].group = calls[i].group - 1

\* The connection test of the sync has passed.
TestPassed == \E i \in 1..Len(calls) : calls[i].call = "GET shop.json" /\ calls[i].ok

StoreRead ==
  \E i \in 1..Len(calls) : calls[i].call = "GET custom_collections.json" /\ calls[i].ok

CollectionPosts ==
  SelectSeq(calls, LAMBDA c : c.call = "POST custom_collections.json")

\* C29: no two creation requests are for collection titles that are equal
\* letter case aside, and none is for a title the store already has, letter
\* case aside.
C29_OneCreationPerCollection ==
  LET posts == CollectionPosts
  IN  /\ \A i, j \in 1..Len(posts) :
           i # j => toLowerCase(posts[i].title) # toLowerCase(posts[j].title)
      /\ \A i \in 1..Len(posts) : \A e \in 1..Len(existingCollections) :
           toLowerCase(posts[i].title) # toLowerCase(existingCollections[e].title)

\* A call that changes the catalog.
IsMutation(c) ==
  c.call \in {"POST custom_collections.json", "POST products.json", "PUT products/id.json"}

====
